---------------------------- MODULE Spec2Model ----------------------------
(***************************************************************************)
(* Model of src/main.py: the FlexComponent adapters over the flet toolkit. *)
(*                                                                         *)
(* Python objects live on two heaps.  `adapters` holds the FlexComponent   *)
(* instances and `widgets` the toolkit widgets an adapter creates and      *)
(* hands out; an object's identity is its index.  Widgets nested inside    *)
(* such a widget (the ft.Text lines of a column, the cells of a table)     *)
(* are kept as values inside their parent.                                 *)
(*                                                                         *)
(* A Python value is a tagged tuple: None, a str (a TLA+ string), a bool,  *)
(* a number or an opaque callable; a child control handed to an adapter    *)
(* is an opaque widget.  Numbers are integers; the font sizes, which have  *)
(* two decimals in the source, are counted in hundredths.  A kwargs dict   *)
(* is a set of <<name, value>> pairs.  A character outside ASCII is        *)
(* written by its code point.                                              *)
(***************************************************************************)
EXTENDS Integers, Sequences, FiniteSets

VARIABLES
    adapters,    \* heap of adapter objects (FlexComponent instances)
    widgets,     \* heap of toolkit widgets that have an identity
    returned,    \* <<adapter, widget>> for every build() call, in call order
    redisplays,  \* per adapter: the widget value seen by each update() request
    passed,      \* per adapter: what its constructor call passed (a value-bearing
                 \* adapter's initial value; the arguments a claim speaks about)
    written,     \* per adapter: the values handed to its value setter, in order
    lastRead     \* the latest read of a value property: <<adapter, value read,
                 \* number of assignments to that property before the read>>

vars == <<adapters, widgets, returned, redisplays, passed, written, lastRead>>

-----------------------------------------------------------------------------
(* Python values *)

PyNone == <<"None">>
PyStr(s) == <<"str", s>>
PyBool(b) == <<"bool", b>>
PyNum(n) == <<"num", n>>
Control(name) == [type |-> "Control", name |-> name]
Callable(name) == <<"callable", name>>

\* an argument the call leaves out
Absent == <<"absent">>

\* a parameter with a default value
Default(arg, default) == IF arg = Absent THEN default ELSE arg

\* bool(v) for None and str
Truthy(v) == v # PyNone /\ v # PyStr("")

\* kwargs dicts
NoKwargs == {}
HasKey(kw, k) == \E p \in kw : p[1] = k
Get(kw, k, default) == IF HasKey(kw, k) THEN (CHOOSE p \in kw : p[1] = k)[2] ELSE default

\* enumerate(xs): the pairs (i, x), i counted from 0
Enumerate(xs) == [p \in 1..Len(xs) |-> <<p - 1, xs[p]>>]

\* str(n) for an integer n >= 0
Digit(d) == <<"0", "1", "2", "3", "4", "5", "6", "7", "8", "9">>[d + 1]
RECURSIVE IntToStr(_)
IntToStr(n) == IF n < 10 THEN Digit(n) ELSE IntToStr(n \div 10) \o Digit(n % 10)

\* f"{v}" inside an f-string, for a str v: its characters
Format(v) == v[2]

-----------------------------------------------------------------------------
(* Toolkit widgets, as far as the adapters configure them.  A keyword the  *)
(* adapter does not pass keeps the toolkit's default, modelled as None.    *)

ft_colors_BLUE == "ft.colors.BLUE"
ft_colors_GREEN == "ft.colors.GREEN"
ft_colors_ORANGE == "ft.colors.ORANGE"
ft_colors_RED == "ft.colors.RED"

ft_Text(value, size, weight, kwargs) ==
    [type |-> "Text", value |-> value, size |-> size, weight |-> weight, kwargs |-> kwargs]

\* ft.Text(value) with nothing else
ft_Text1(value) == ft_Text(value, PyNone, PyNone, NoKwargs)

ft_ButtonStyle(color) == [type |-> "ButtonStyle", color |-> color]

ft_ElevatedButton(text, style, on_click, kwargs) ==
    [type |-> "ElevatedButton", text |-> text, style |-> style, on_click |-> on_click,
     kwargs |-> kwargs]

ft_TextField(hint_text, kwargs) ==
    [type |-> "TextField", hint_text |-> hint_text,
     value |-> Get(kwargs, "value", PyNone), kwargs |-> kwargs]

ft_Column(controls, kwargs) == [type |-> "Column", controls |-> controls, kwargs |-> kwargs]

ft_Container(content, bgcolor, padding, border_radius, kwargs) ==
    [type |-> "Container", content |-> content, bgcolor |-> bgcolor, padding |-> padding,
     border_radius |-> border_radius, kwargs |-> kwargs]

ft_Image(src, kwargs) == [type |-> "Image", src |-> src, kwargs |-> kwargs]

ft_TextButton(text, url, kwargs) ==
    [type |-> "TextButton", text |-> text, url |-> url, kwargs |-> kwargs]

ft_DataColumn(label) == [type |-> "DataColumn", label |-> label]
ft_DataCell(content) == [type |-> "DataCell", content |-> content]
ft_DataRow(cells) == [type |-> "DataRow", cells |-> cells]
ft_DataTable(columns, rows, kwargs) ==
    [type |-> "DataTable", columns |-> columns, rows |-> rows, kwargs |-> kwargs]

ft_Checkbox(label, value, kwargs) ==
    [type |-> "Checkbox", label |-> label, value |-> value, kwargs |-> kwargs]

ft_Radio(value, label) == [type |-> "Radio", value |-> value, label |-> label]

ft_RadioGroup(content, kwargs) ==
    [type |-> "RadioGroup", content |-> content,
     value |-> Get(kwargs, "value", PyNone), kwargs |-> kwargs]

ft_dropdown_Option(key) == [type |-> "Option", key |-> key]

ft_Dropdown(options, kwargs) ==
    [type |-> "Dropdown", options |-> options,
     value |-> Get(kwargs, "value", PyNone), kwargs |-> kwargs]

ft_Slider(min, max, value, kwargs) ==
    [type |-> "Slider", min |-> min, max |-> max, value |-> value, kwargs |-> kwargs]

ft_ProgressBar(value, kwargs) ==
    [type |-> "ProgressBar", value |-> value, kwargs |-> kwargs]

\* ft.Tab(**fields), an object told from a dict by its tag
ft_Tab(fields) == <<"Tab", fields>>

ft_Tabs(tabs, kwargs) == [type |-> "Tabs", tabs |-> tabs, kwargs |-> kwargs]

-----------------------------------------------------------------------------
(* What build() hands back: a widget that already has an identity, or a    *)
(* widget this call has just constructed.                                  *)

Existing(ref) == [fresh |-> FALSE, ref |-> ref]
Fresh(widget) == [fresh |-> TRUE, widget |-> widget]

-----------------------------------------------------------------------------
(* The adapter classes.  X_init is the object __init__ leaves, X_widget    *)
(* the widget __init__ constructs (its identity on the heap is `ref`),     *)
(* X_build the build() method.                                             *)

Text_widget(text, kwargs) == ft_Text(Default(text, PyStr("")), PyNone, PyNone, kwargs)
Text_init(text, kwargs, ref) == [cls |-> "Text", kwargs |-> kwargs, text_control |-> ref]
\* faulty variant: build() constructs a new ft.Text on every call
Text_build_fresh(self) == Fresh(ft_Text(PyNone, PyNone, PyNone, self.kwargs))
Text_build(self) == Existing(self.text_control)

Button_style(color) == IF Truthy(color) THEN ft_ButtonStyle({<<"", color>>}) ELSE PyNone
Button_widget(text, color, on_click, kwargs) ==
    ft_ElevatedButton(Default(text, PyStr("")), Button_style(Default(color, PyNone)),
                      Default(on_click, PyNone), kwargs)
Button_init(text, color, on_click, kwargs, ref) ==
    [cls |-> "Button", kwargs |-> kwargs, button |-> ref]
Button_build(self) == Existing(self.button)

Input_widget(placeholder, kwargs) == ft_TextField(Default(placeholder, PyStr("")), kwargs)
Input_init(placeholder, kwargs, ref) == [cls |-> "Input", kwargs |-> kwargs, input |-> ref]
Input_build(self) == Existing(self.input)

Div_init(controls, kwargs) == [cls |-> "Div", kwargs |-> kwargs, controls |-> controls]
Div_build(self) ==
    Fresh(ft_Container(ft_Column(self.controls, NoKwargs), PyNone, PyNone, PyNone, self.kwargs))

Image_widget(src, kwargs) == ft_Image(Default(src, PyStr("")), kwargs)
Image_init(src, kwargs, ref) == [cls |-> "Image", kwargs |-> kwargs, image |-> ref]
Image_build(self) == Existing(self.image)

\* sizes = {1: 32, 2: 24, 3: 18.72, 4: 16, 5: 13.28, 6: 10.72}, in hundredths
Heading_sizes == <<3200, 2400, 1872, 1600, 1328, 1072>>
\* faulty variant: a level outside the table takes the nearest entry
Heading_size_clamped(level) ==
    IF level < 1 THEN Heading_sizes[1]
    ELSE IF level > 6 THEN Heading_sizes[6] ELSE Heading_sizes[level]
\* sizes.get(level, 16)
Heading_size(level) ==
    IF level \in DOMAIN Heading_sizes THEN Heading_sizes[level] ELSE 1600
Heading_widget(level, text, kwargs) ==
    ft_Text(Default(text, PyStr("")), PyNum(Heading_size(level)), PyStr("bold"), kwargs)
Heading_init(level, text, kwargs, ref) == [cls |-> "Heading", kwargs |-> kwargs, text |-> ref]
Heading_build(self) == Existing(self.text)

Paragraph_widget(text, kwargs) == ft_Text(Default(text, PyStr("")), PyNone, PyNone, kwargs)
Paragraph_init(text, kwargs, ref) == [cls |-> "Paragraph", kwargs |-> kwargs, paragraph |-> ref]
Paragraph_build(self) == Existing(self.paragraph)

Link_widget(text, url, kwargs) ==
    ft_TextButton(Default(text, PyStr("")), Default(url, PyStr("")), kwargs)
Link_init(text, url, kwargs, ref) == [cls |-> "Link", kwargs |-> kwargs, link |-> ref]
Link_build(self) == Existing(self.link)

\* the characters before the space in the f-string literal of line 104
UnorderedList_marker == "<U+00E2><U+20AC><U+00A2>"
UnorderedList_line(item) == ft_Text1(PyStr(UnorderedList_marker \o " " \o Format(item)))
UnorderedList_init(items, kwargs) ==
    [cls |-> "UnorderedList", kwargs |-> kwargs, items |-> items]
UnorderedList_build(self) ==
    Fresh(ft_Column([p \in 1..Len(self.items) |-> UnorderedList_line(self.items[p])],
                    self.kwargs))

\* faulty variant: the lines are numbered from 0
OrderedList_line_from_zero(pair) ==
    ft_Text1(PyStr(IntToStr(pair[1]) \o ". " \o Format(pair[2])))
\* f"{i+1}. {item}" for one (i, item) of the enumeration
OrderedList_line(pair) ==
    ft_Text1(PyStr(IntToStr(pair[1] + 1) \o ". " \o Format(pair[2])))
OrderedList_init(items, kwargs) ==
    [cls |-> "OrderedList", kwargs |-> kwargs, items |-> items]
OrderedList_build(self) ==
    LET pairs == Enumerate(self.items)
    IN  Fresh(ft_Column([p \in 1..Len(pairs) |-> OrderedList_line(pairs[p])], self.kwargs))

Table_column(header) == ft_DataColumn(ft_Text1(header))
Table_cell(cell) == ft_DataCell(ft_Text1(cell))
Table_row(row) == ft_DataRow([p \in 1..Len(row) |-> Table_cell(row[p])])
Table_init(headers, rows, kwargs) ==
    [cls |-> "Table", kwargs |-> kwargs, headers |-> headers, rows |-> rows]
\* faulty variant: a row is cut to the number of headers
Table_build_cut_rows(self) ==
    LET cut(row) ==
            Table_row(SubSeq(row, 1, IF Len(row) < Len(self.headers) THEN Len(row)
                                     ELSE Len(self.headers)))
    IN  Fresh(ft_DataTable([p \in 1..Len(self.headers) |-> Table_column(self.headers[p])],
                           [p \in 1..Len(self.rows) |-> cut(self.rows[p])], self.kwargs))
Table_build(self) ==
    Fresh(ft_DataTable([p \in 1..Len(self.headers) |-> Table_column(self.headers[p])],
                       [p \in 1..Len(self.rows) |-> Table_row(self.rows[p])], self.kwargs))

Form_submit(self) == ft_ElevatedButton(PyStr("Submit"), PyNone, self.on_submit, NoKwargs)
Form_init(controls, on_submit, kwargs) ==
    [cls |-> "Form", kwargs |-> kwargs, controls |-> controls,
     on_submit |-> Default(on_submit, PyNone)]
\* faulty variant: the Submit button is put before the children
Form_build_submit_first(self) ==
    Fresh(ft_Container(ft_Column(<<Form_submit(self)>> \o self.controls, NoKwargs),
                       PyNone, PyNone, PyNone, self.kwargs))
Form_build(self) ==
    Fresh(ft_Container(ft_Column(self.controls \o <<Form_submit(self)>>, NoKwargs),
                       PyNone, PyNone, PyNone, self.kwargs))

\* faulty variant: the initial value is not forwarded to ft.Checkbox
Checkbox_widget_drops_value(label, value, kwargs) ==
    ft_Checkbox(Default(label, PyStr("")), PyBool(FALSE), kwargs)
Checkbox_widget(label, value, kwargs) ==
    ft_Checkbox(Default(label, PyStr("")), Default(value, PyBool(FALSE)), kwargs)
Checkbox_init(label, value, kwargs, ref) ==
    [cls |-> "Checkbox", kwargs |-> kwargs, checkbox |-> ref]
Checkbox_build(self) == Existing(self.checkbox)

RadioGroup_radio(option) == ft_Radio(option, option)
RadioGroup_widget(options, kwargs) ==
    ft_RadioGroup(ft_Column([p \in 1..Len(options) |-> RadioGroup_radio(options[p])], NoKwargs),
                  kwargs)
RadioGroup_init(options, kwargs, ref) ==
    [cls |-> "RadioGroup", kwargs |-> kwargs, options |-> options, radio_group |-> ref]
RadioGroup_build(self) == Existing(self.radio_group)

Dropdown_widget(options, kwargs) ==
    ft_Dropdown([p \in 1..Len(options) |-> ft_dropdown_Option(options[p])], kwargs)
Dropdown_init(options, kwargs, ref) == [cls |-> "Dropdown", kwargs |-> kwargs, dropdown |-> ref]
Dropdown_build(self) == Existing(self.dropdown)

Slider_widget(min, max, value, kwargs) ==
    ft_Slider(Default(min, PyNum(0)), Default(max, PyNum(100)), Default(value, PyNum(0)), kwargs)
Slider_init(min, max, value, kwargs, ref) == [cls |-> "Slider", kwargs |-> kwargs, slider |-> ref]
Slider_build(self) == Existing(self.slider)

ProgressBar_widget(value, kwargs) == ft_ProgressBar(Default(value, PyNum(0)), kwargs)
ProgressBar_init(value, kwargs, ref) ==
    [cls |-> "ProgressBar", kwargs |-> kwargs, progress_bar |-> ref]
ProgressBar_build(self) == Existing(self.progress_bar)

\* a tab descriptor is a dict <<"dict", fields>> or an ft.Tab object
Tabs_tab(tab) == IF tab[1] = "dict" THEN ft_Tab(tab[2]) ELSE tab
Tabs_widget(tabs, kwargs) == ft_Tabs([p \in 1..Len(tabs) |-> Tabs_tab(tabs[p])], kwargs)
Tabs_init(tabs, kwargs, ref) == [cls |-> "Tabs", kwargs |-> kwargs, tabs |-> ref]
Tabs_build(self) == Existing(self.tabs)

Alert_colors ==
    [severity \in {"info", "success", "warning", "error"} |->
        CASE severity = "info" -> ft_colors_BLUE
          [] severity = "success" -> ft_colors_GREEN
          [] severity = "warning" -> ft_colors_ORANGE
          [] severity = "error" -> ft_colors_RED]
\* faulty variant: an unknown severity is shown as an error
Alert_color_unknown_red(severity) ==
    IF severity[1] = "str" /\ severity[2] \in DOMAIN Alert_colors
    THEN Alert_colors[severity[2]] ELSE ft_colors_RED
\* colors.get(severity, ft.colors.BLUE)
Alert_color(severity) ==
    IF severity[1] = "str" /\ severity[2] \in DOMAIN Alert_colors
    THEN Alert_colors[severity[2]] ELSE ft_colors_BLUE
Alert_widget(text, severity, kwargs) ==
    ft_Container(ft_Text1(Default(text, PyStr(""))),
                 Alert_color(Default(severity, PyStr("info"))), PyNum(10), PyNum(5), kwargs)
Alert_init(text, severity, kwargs, ref) == [cls |-> "Alert", kwargs |-> kwargs, alert |-> ref]
Alert_build(self) == Existing(self.alert)

-----------------------------------------------------------------------------
(* Dispatch on the adapter's class *)

EagerClasses ==
    {"Text", "Button", "Input", "Image", "Heading", "Paragraph", "Link", "Checkbox",
     "RadioGroup", "Dropdown", "Slider", "ProgressBar", "Tabs", "Alert"}
LazyClasses == {"Div", "UnorderedList", "OrderedList", "Table", "Form"}
ValueClasses == {"Text", "Input", "Checkbox", "RadioGroup", "Dropdown", "Slider", "ProgressBar"}

\* the attribute in which an adapter keeps the widget its constructor made
Wrapped(self) ==
    CASE self.cls = "Text" -> self.text_control
      [] self.cls = "Button" -> self.button
      [] self.cls = "Input" -> self.input
      [] self.cls = "Image" -> self.image
      [] self.cls = "Heading" -> self.text
      [] self.cls = "Paragraph" -> self.paragraph
      [] self.cls = "Link" -> self.link
      [] self.cls = "Checkbox" -> self.checkbox
      [] self.cls = "RadioGroup" -> self.radio_group
      [] self.cls = "Dropdown" -> self.dropdown
      [] self.cls = "Slider" -> self.slider
      [] self.cls = "ProgressBar" -> self.progress_bar
      [] self.cls = "Tabs" -> self.tabs
      [] self.cls = "Alert" -> self.alert

\* self.build()
build(self) ==
    CASE self.cls = "Text" -> Text_build(self)
      [] self.cls = "Button" -> Button_build(self)
      [] self.cls = "Input" -> Input_build(self)
      [] self.cls = "Div" -> Div_build(self)
      [] self.cls = "Image" -> Image_build(self)
      [] self.cls = "Heading" -> Heading_build(self)
      [] self.cls = "Paragraph" -> Paragraph_build(self)
      [] self.cls = "Link" -> Link_build(self)
      [] self.cls = "UnorderedList" -> UnorderedList_build(self)
      [] self.cls = "OrderedList" -> OrderedList_build(self)
      [] self.cls = "Table" -> Table_build(self)
      [] self.cls = "Form" -> Form_build(self)
      [] self.cls = "Checkbox" -> Checkbox_build(self)
      [] self.cls = "RadioGroup" -> RadioGroup_build(self)
      [] self.cls = "Dropdown" -> Dropdown_build(self)
      [] self.cls = "Slider" -> Slider_build(self)
      [] self.cls = "ProgressBar" -> ProgressBar_build(self)
      [] self.cls = "Tabs" -> Tabs_build(self)
      [] self.cls = "Alert" -> Alert_build(self)

-----------------------------------------------------------------------------
(* The value property of the seven value-bearing classes *)

\* @property value: return <widget>.value
value_get(self, heap) == heap[Wrapped(self)].value

\* faulty variant: one widget state shared by all adapters
value_set_write_all(self, v, heap) == [w \in DOMAIN heap |-> [heap[w] EXCEPT !.value = v]]

\* @value.setter, first statement: <widget>.value = v
value_set_write(self, v, heap) == [heap EXCEPT ![Wrapped(self)].value = v]

\* self.update(): the toolkit is asked to redisplay adapter a, and shows what
\* the wrapped widget holds at that moment
update(a, heap, shown) == [shown EXCEPT ![a] = Append(@, value_get(adapters[a], heap))]

\* faulty variant: update() is called before the write
value_set_update_first(a, v) ==
    /\ redisplays' = update(a, widgets, redisplays)
    /\ widgets' = value_set_write(adapters[a], v, widgets)

\* @value.setter as a whole: the write, then one update()
value_set(a, v) ==
    LET heap == value_set_write(adapters[a], v, widgets)
    IN  /\ widgets' = heap
        /\ redisplays' = update(a, heap, redisplays)

-----------------------------------------------------------------------------
(* Bounds of the model *)

MaxValueAdapters == 1  \* adapters alive in Spec
MaxAdapters == 2       \* adapters alive in SpecFrame and SpecBuild
MaxSets == 2           \* assignments to value properties, over all adapters
MaxBuilds == 2         \* build() calls, over all adapters
LevelMargin == 3       \* heading levels tried below 1 and above 6
MaxShort == 3          \* items of a list drawn freely
MaxLong == 11          \* items of a list of equal items
MaxHeaders == 2        \* headers of a table
MaxRows == 2           \* rows of a table
MaxCells == 2          \* cells of a table row
MaxChildren == 2       \* child controls of a form

-----------------------------------------------------------------------------
(* Operations *)

NextRef == Len(widgets) + 1

\* a constructor call of an eager class returns: the adapter and the widget
\* it made join the heaps
Construct(adapter, widget, initial, cap) ==
    /\ Len(adapters) < cap
    /\ adapters' = Append(adapters, adapter)
    /\ widgets' = Append(widgets, widget)
    /\ redisplays' = Append(redisplays, <<>>)
    /\ passed' = Append(passed, initial)
    /\ written' = Append(written, <<>>)
    /\ UNCHANGED <<returned, lastRead>>

\* a constructor call of a lazy class returns: it made no widget
ConstructLazy(adapter, cap) ==
    /\ Len(adapters) < cap
    /\ adapters' = Append(adapters, adapter)
    /\ redisplays' = Append(redisplays, <<>>)
    /\ passed' = Append(passed, Absent)
    /\ written' = Append(written, <<>>)
    /\ UNCHANGED <<widgets, returned, lastRead>>

Strs == {PyStr("a"), PyStr("b")}
Bools == {PyBool(FALSE), PyBool(TRUE)}
Nums == {PyNum(0), PyNum(1)}
Options == <<PyStr("a"), PyStr("b")>>
Width == {<<"width", PyNum(200)>>}

NewText(cap) ==
    \E text \in {PyStr("a")} :
        Construct(Text_init(text, NoKwargs, NextRef), Text_widget(text, NoKwargs), text, cap)

NewInput(cap) ==
    \E kwargs \in {NoKwargs, {<<"value", PyStr("a")>>}} :
        Construct(Input_init(PyStr("hint"), kwargs, NextRef),
                  Input_widget(PyStr("hint"), kwargs), Get(kwargs, "value", Absent), cap)

NewCheckbox(cap) ==
    \E value \in Bools :
        Construct(Checkbox_init(PyStr("l"), value, NoKwargs, NextRef),
                  Checkbox_widget(PyStr("l"), value, NoKwargs), value, cap)

NewRadioGroup(cap) ==
    \E kwargs \in {NoKwargs} :
        Construct(RadioGroup_init(Options, kwargs, NextRef),
                  RadioGroup_widget(Options, kwargs), Get(kwargs, "value", Absent), cap)

NewDropdown(cap) ==
    \E kwargs \in {{<<"value", PyStr("b")>>}} :
        Construct(Dropdown_init(Options, kwargs, NextRef),
                  Dropdown_widget(Options, kwargs), Get(kwargs, "value", Absent), cap)

NewSlider(cap) ==
    \E value \in {PyNum(1)} :
        Construct(Slider_init(Absent, Absent, value, NoKwargs, NextRef),
                  Slider_widget(Absent, Absent, value, NoKwargs), value, cap)

NewProgressBar(cap) ==
    \E value \in {Absent} :
        Construct(ProgressBar_init(value, NoKwargs, NextRef),
                  ProgressBar_widget(value, NoKwargs), value, cap)

NewButton(cap) ==
    \E color \in {Absent, PyStr("red")} :
        Construct(Button_init(PyStr("ok"), color, Callable("h"), NoKwargs, NextRef),
                  Button_widget(PyStr("ok"), color, Callable("h"), NoKwargs), Absent, cap)

NewImage(cap) ==
    Construct(Image_init(PyStr("a.png"), NoKwargs, NextRef),
              Image_widget(PyStr("a.png"), NoKwargs), Absent, cap)

NewHeading(cap) ==
    Construct(Heading_init(2, PyStr("a"), NoKwargs, NextRef),
              Heading_widget(2, PyStr("a"), NoKwargs), Absent, cap)

NewParagraph(cap) ==
    Construct(Paragraph_init(PyStr("a"), NoKwargs, NextRef),
              Paragraph_widget(PyStr("a"), NoKwargs), Absent, cap)

NewLink(cap) ==
    Construct(Link_init(PyStr("a"), PyStr("http://a"), NoKwargs, NextRef),
              Link_widget(PyStr("a"), PyStr("http://a"), NoKwargs), Absent, cap)

NewTabs(cap) ==
    Construct(Tabs_init(<<<<"dict", {<<"text", PyStr("a")>>}>>, ft_Tab({})>>, NoKwargs, NextRef),
              Tabs_widget(<<<<"dict", {<<"text", PyStr("a")>>}>>, ft_Tab({})>>, NoKwargs),
              Absent, cap)

NewAlert(cap) ==
    Construct(Alert_init(PyStr("a"), PyStr("error"), NoKwargs, NextRef),
              Alert_widget(PyStr("a"), PyStr("error"), NoKwargs), Absent, cap)

NewDiv(cap) == ConstructLazy(Div_init(<<Control("c1")>>, Width), cap)

NewUnorderedList(cap) == ConstructLazy(UnorderedList_init(Options, NoKwargs), cap)

NewOrderedList(cap) == ConstructLazy(OrderedList_init(Options, NoKwargs), cap)

NewTable(cap) ==
    ConstructLazy(Table_init(<<PyStr("A")>>, <<<<PyStr("1")>>>>, NoKwargs), cap)

NewForm(cap) == ConstructLazy(Form_init(<<Control("c1")>>, Callable("h"), NoKwargs), cap)

\* the values a caller assigns to the value property of an adapter of class cls
Assignable(cls) ==
    CASE cls \in {"Text", "Input", "RadioGroup", "Dropdown"} -> Strs
      [] cls = "Checkbox" -> Bools
      [] cls \in {"Slider", "ProgressBar"} -> Nums

RECURSIVE SumLen(_)
SumLen(seqs) == IF seqs = <<>> THEN 0 ELSE Len(Head(seqs)) + SumLen(Tail(seqs))

\* adapter.value = v
SetValue ==
    \E a \in 1..Len(adapters) :
        /\ adapters[a].cls \in ValueClasses
        /\ SumLen(written) < MaxSets
        /\ \E v \in Assignable(adapters[a].cls) :
            /\ value_set(a, v)
            /\ written' = [written EXCEPT ![a] = Append(@, v)]
        /\ UNCHANGED <<adapters, returned, passed, lastRead>>

\* x = adapter.value; lastRead keeps x and how many assignments came before
ReadValue ==
    \E a \in 1..Len(adapters) :
        /\ adapters[a].cls \in ValueClasses
        /\ lastRead' = <<a, value_get(adapters[a], widgets), Len(written[a])>>
        /\ UNCHANGED <<adapters, widgets, returned, redisplays, passed, written>>

\* adapter.build(): a widget it constructs gets the next identity
Build ==
    \E a \in 1..Len(adapters) :
        /\ Len(returned) < MaxBuilds
        /\ LET r == build(adapters[a])
           IN  IF r.fresh
               THEN /\ widgets' = Append(widgets, r.widget)
                    /\ returned' = Append(returned, <<a, NextRef>>)
               ELSE /\ widgets' = widgets
                    /\ returned' = Append(returned, <<a, r.ref>>)
        /\ UNCHANGED <<adapters, redisplays, passed, written, lastRead>>

-----------------------------------------------------------------------------
(* Specifications *)

Init ==
    /\ adapters = <<>>
    /\ widgets = <<>>
    /\ returned = <<>>
    /\ redisplays = <<>>
    /\ passed = <<>>
    /\ written = <<>>
    /\ lastRead = <<>>

\* the life of a value-bearing adapter
Next ==
    \/ NewText(MaxValueAdapters)
    \/ NewInput(MaxValueAdapters)
    \/ NewCheckbox(MaxValueAdapters)
    \/ NewRadioGroup(MaxValueAdapters)
    \/ NewDropdown(MaxValueAdapters)
    \/ NewSlider(MaxValueAdapters)
    \/ NewProgressBar(MaxValueAdapters)
    \/ SetValue
    \/ ReadValue
    \/ Build

Spec == Init /\ [][Next]_vars

\* value assignments over several value-bearing adapters
NextFrame ==
    \/ NewText(MaxAdapters)
    \/ NewInput(MaxAdapters)
    \/ NewCheckbox(MaxAdapters)
    \/ NewRadioGroup(MaxAdapters)
    \/ NewDropdown(MaxAdapters)
    \/ NewSlider(MaxAdapters)
    \/ NewProgressBar(MaxAdapters)
    \/ SetValue

SpecFrame == Init /\ [][NextFrame]_vars

\* build() calls over adapters of every class
NextBuild ==
    \/ NewText(MaxAdapters)
    \/ NewButton(MaxAdapters)
    \/ NewInput(MaxAdapters)
    \/ NewDiv(MaxAdapters)
    \/ NewImage(MaxAdapters)
    \/ NewHeading(MaxAdapters)
    \/ NewParagraph(MaxAdapters)
    \/ NewLink(MaxAdapters)
    \/ NewUnorderedList(MaxAdapters)
    \/ NewOrderedList(MaxAdapters)
    \/ NewTable(MaxAdapters)
    \/ NewForm(MaxAdapters)
    \/ NewCheckbox(MaxAdapters)
    \/ NewRadioGroup(MaxAdapters)
    \/ NewDropdown(MaxAdapters)
    \/ NewSlider(MaxAdapters)
    \/ NewProgressBar(MaxAdapters)
    \/ NewTabs(MaxAdapters)
    \/ NewAlert(MaxAdapters)
    \/ Build

SpecBuild == Init /\ [][NextBuild]_vars

-----------------------------------------------------------------------------
(* One adapter of a class, constructed from arguments drawn from bounded   *)
(* sets, then built.                                                       *)

\* all sequences over S of length at most n
SeqsUpTo(S, n) == UNION {[1..k -> S] : k \in 0..n}

\* the state after one constructor call
Constructed(adapter, heap, args) ==
    /\ adapters = <<adapter>>
    /\ widgets = heap
    /\ returned = <<>>
    /\ redisplays = << <<>> >>
    /\ passed = <<args>>
    /\ written = << <<>> >>
    /\ lastRead = <<>>

KwargsTried == {NoKwargs, Width}

InitHeading ==
    \E level \in (1 - LevelMargin)..(6 + LevelMargin), text \in {Absent, PyStr("Title")},
       kwargs \in KwargsTried :
        Constructed(Heading_init(level, text, kwargs, 1), <<Heading_widget(level, text, kwargs)>>,
                    [level |-> level, text |-> text])

SpecHeading == InitHeading /\ [][Build]_vars

SeveritiesTried ==
    {Absent, PyNone, PyStr("info"), PyStr("success"), PyStr("warning"), PyStr("error"),
     PyStr("debug"), PyStr("INFO"), PyStr("")}

InitAlert ==
    \E text \in {Absent, PyStr("a")}, severity \in SeveritiesTried, kwargs \in KwargsTried :
        Constructed(Alert_init(text, severity, kwargs, 1), <<Alert_widget(text, severity, kwargs)>>,
                    [text |-> text, severity |-> severity])

SpecAlert == InitAlert /\ [][Build]_vars

ItemsTried == {PyStr("a"), PyStr("b"), PyStr("x"), PyStr("y"), PyStr("z"), PyStr("")}
ListsTried == SeqsUpTo(ItemsTried, MaxShort) \cup SeqsUpTo({PyStr("a")}, MaxLong)

InitList ==
    \E items \in ListsTried, kwargs \in {NoKwargs} :
        \/ Constructed(UnorderedList_init(items, kwargs), <<>>, [items |-> items])
        \/ Constructed(OrderedList_init(items, kwargs), <<>>, [items |-> items])

SpecList == InitList /\ [][Build]_vars

HeadersTried == SeqsUpTo({PyStr("A"), PyStr("B")}, MaxHeaders)
CellsTried == SeqsUpTo({PyStr("1"), PyStr("2")}, MaxCells)
RowsTried ==
    SeqsUpTo(CellsTried, MaxRows)
        \cup {<< <<PyStr("1"), PyStr("2")>>, <<PyStr("3"), PyStr("4")>> >>}

InitTable ==
    \E headers \in HeadersTried, rows \in RowsTried :
        Constructed(Table_init(headers, rows, NoKwargs), <<>>,
                    [headers |-> headers, rows |-> rows])

SpecTable == InitTable /\ [][Build]_vars

InitForm ==
    \E controls \in SeqsUpTo({Control("c1"), Control("c2")}, MaxChildren),
       on_submit \in {Absent, Callable("h1"), Callable("h2")}, kwargs \in KwargsTried :
        Constructed(Form_init(controls, on_submit, kwargs), <<>>,
                    [controls |-> controls, on_submit |-> on_submit])

SpecForm == InitForm /\ [][Build]_vars

-----------------------------------------------------------------------------
(* Properties *)

Last(seq) == seq[Len(seq)]

\* C1 (Spec): a value-bearing adapter that was given an initial value reads
\* that value until its first assignment; after assignments it reads the
\* latest value assigned, which the wrapped widget holds; and every read
\* that was made returned that value at the time it was made.
C1_ValueMirrorsWidget ==
    /\ \A a \in 1..Len(adapters) :
        LET cur == value_get(adapters[a], widgets)
        IN  /\ (written[a] = <<>> /\ passed[a] # Absent) => cur = passed[a]
            /\ written[a] # <<>> => cur = Last(written[a])
            /\ written[a] # <<>> => widgets[Wrapped(adapters[a])].value = Last(written[a])
    /\ lastRead # <<>> =>
        LET a == lastRead[1]
            n == lastRead[3]
        IN  /\ (n = 0 /\ passed[a] # Absent) => lastRead[2] = passed[a]
            /\ n > 0 => lastRead[2] = written[a][n]

\* C1 witness: a Checkbox constructed with value=True was read, then set to
\* False, and then read False.
C1_Witness ==
    /\ Len(adapters) = 1
    /\ adapters[1].cls = "Checkbox"
    /\ passed[1] = PyBool(TRUE)
    /\ written[1] = <<PyBool(FALSE)>>
    /\ lastRead = <<1, PyBool(FALSE), 1>>

\* C2 (Spec): the redisplay requests of an adapter are, one for one and in
\* order, the assignments to its value property, each request seeing the
\* value just written; reads and build() calls add none.
C2_OneRedisplayPerSet ==
    \A a \in 1..Len(adapters) :
        /\ Len(redisplays[a]) = Len(written[a])
        /\ \A k \in 1..Len(written[a]) : redisplays[a][k] = written[a][k]

\* C2 witness: two assignments of different values, a read and a build()
\* call on one adapter, and two redisplay requests.
C2_Witness ==
    /\ Len(adapters) = 1
    /\ Len(written[1]) = 2
    /\ written[1][1] # written[1][2]
    /\ lastRead # <<>>
    /\ returned # <<>>
    /\ Len(redisplays[1]) = 2

\* C3 as stated (SpecBuild): all build() calls on an adapter return one widget
\* instance, and no widget instance is returned by two adapters.
C3_OneWidgetPerAdapter ==
    \A i, j \in 1..Len(returned) :
        (returned[i][1] = returned[j][1]) <=> (returned[i][2] = returned[j][2])

\* C3 amended (SpecBuild): the fourteen classes that make their widget in the
\* constructor return that one instance from every build() call; Div,
\* UnorderedList, OrderedList, Table and Form return a newly constructed
\* instance from every build() call; no instance is returned by two adapters.
C3_OneWidgetPerEagerAdapter ==
    \A i, j \in 1..Len(returned) :
        LET a == returned[i][1]
            b == returned[j][1]
            made_in_build ==
                adapters[a].cls \in {"Div", "UnorderedList", "OrderedList", "Table", "Form"}
        IN  /\ a # b => returned[i][2] # returned[j][2]
            /\ (a = b /\ ~made_in_build) =>
                /\ returned[i][2] = returned[j][2]
                /\ returned[i][2] = Wrapped(adapters[a])
            /\ (a = b /\ made_in_build /\ i # j) => returned[i][2] # returned[j][2]
            /\ returned[i][2] \in 1..Len(widgets)

\* C3 witness: two adapters, one of which build() was called on twice and
\* returned the widget of its constructor both times.
C3_Witness ==
    /\ Len(adapters) = 2
    /\ Len(returned) = 2
    /\ returned[1] = returned[2]
    /\ adapters[returned[1][1]].cls = "Heading"

\* the font size table of C4, in hundredths
C4_Expected(level) ==
    CASE level = 1 -> 3200
      [] level = 2 -> 2400
      [] level = 3 -> 1872
      [] level = 4 -> 1600
      [] level = 5 -> 1328
      [] level = 6 -> 1072
      [] OTHER -> 1600

\* C4 (SpecHeading): the text widget of a Heading, and what build() returns,
\* has the font size of the table for levels 1..6 and 16 for any other
\* level, and bold weight in every case.
C4_HeadingSize ==
    /\ \A a \in 1..Len(adapters) :
        LET w == widgets[Wrapped(adapters[a])]
        IN  /\ w.type = "Text"
            /\ w.size = PyNum(C4_Expected(passed[a].level))
            /\ w.weight = PyStr("bold")
    /\ \A i \in 1..Len(returned) :
        LET w == widgets[returned[i][2]]
        IN  /\ w.size = PyNum(C4_Expected(passed[returned[i][1]].level))
            /\ w.weight = PyStr("bold")

\* C4 witness: a Heading of level 7 was built, with size 16.
C4_Witness ==
    /\ passed[1].level = 7
    /\ returned # <<>>
    /\ widgets[returned[1][2]].size = PyNum(1600)

\* the colour mapping of C5
C5_Expected(severity) ==
    CASE severity = PyStr("info") -> "ft.colors.BLUE"
      [] severity = PyStr("success") -> "ft.colors.GREEN"
      [] severity = PyStr("warning") -> "ft.colors.ORANGE"
      [] severity = PyStr("error") -> "ft.colors.RED"
      [] OTHER -> "ft.colors.BLUE"

\* C5 (SpecAlert): the container of an Alert, and what build() returns, has
\* the background BLUE, GREEN, ORANGE, RED for info, success, warning, error
\* and BLUE for any other severity and when the severity is left out.
C5_AlertColor ==
    /\ \A a \in 1..Len(adapters) :
        LET w == widgets[Wrapped(adapters[a])]
        IN  /\ w.type = "Container"
            /\ w.bgcolor = C5_Expected(passed[a].severity)
    /\ \A i \in 1..Len(returned) :
        widgets[returned[i][2]].bgcolor = C5_Expected(passed[returned[i][1]].severity)

\* C5 witness: an Alert with a severity outside the mapping was built, BLUE.
C5_Witness ==
    /\ passed[1].severity = PyStr("debug")
    /\ returned # <<>>
    /\ widgets[returned[1][2]].bgcolor = "ft.colors.BLUE"

\* decimal numerals, written out
Numerals ==
    <<"1", "2", "3", "4", "5", "6", "7", "8", "9", "10", "11", "12", "13", "14", "15", "16">>

\* C6 (SpecList): build() of an OrderedList returns a column with one text
\* line per item, in input order, line p (from 1) being the decimal numeral
\* of p, ". " and the item; no items give no lines.
C6_OrderedLines ==
    \A i \in 1..Len(returned) :
        LET a == returned[i][1]
            w == widgets[returned[i][2]]
            items == passed[a].items
        IN  adapters[a].cls = "OrderedList" =>
                /\ w.type = "Column"
                /\ Len(w.controls) = Len(items)
                /\ \A p \in 1..Len(items) :
                    /\ w.controls[p].type = "Text"
                    /\ w.controls[p].value = PyStr(Numerals[p] \o ". " \o items[p][2])

\* C6 witness: OrderedList("x", "y", "z") was built and gave "1. x", "2. y",
\* "3. z".
C6_Witness ==
    /\ adapters[1].cls = "OrderedList"
    /\ passed[1].items = <<PyStr("x"), PyStr("y"), PyStr("z")>>
    /\ returned # <<>>
    /\ LET lines == widgets[returned[1][2]].controls
       IN  <<lines[1].value, lines[2].value, lines[3].value>>
               = <<PyStr("1. x"), PyStr("2. y"), PyStr("3. z")>>

\* C7 as stated (SpecList): build() of an UnorderedList returns a column with
\* one text line per item, in input order, each line being the bullet
\* character U+2022, a space and the item.
C7_BulletLines ==
    \A i \in 1..Len(returned) :
        LET a == returned[i][1]
            w == widgets[returned[i][2]]
            items == passed[a].items
        IN  adapters[a].cls = "UnorderedList" =>
                /\ Len(w.controls) = Len(items)
                /\ \A p \in 1..Len(items) :
                    w.controls[p].value = PyStr("<U+2022>" \o " " \o items[p][2])

\* C8 (SpecTable): build() of a Table returns a data table with one column
\* per header, in order, labelled with the header; one row per input row, in
\* order, with one cell per element of that row holding the element; the
\* cells of a row are not counted against the headers.
C8_TableShape ==
    \A i \in 1..Len(returned) :
        LET a == returned[i][1]
            w == widgets[returned[i][2]]
            headers == passed[a].headers
            rows == passed[a].rows
        IN  /\ w.type = "DataTable"
            /\ Len(w.columns) = Len(headers)
            /\ \A c \in 1..Len(headers) : w.columns[c].label.value = headers[c]
            /\ Len(w.rows) = Len(rows)
            /\ \A r \in 1..Len(rows) :
                /\ Len(w.rows[r].cells) = Len(rows[r])
                /\ \A c \in 1..Len(rows[r]) : w.rows[r].cells[c].content.value = rows[r][c]

\* C8 witness: a Table of two headers whose first row has one cell and whose
\* second row has two was built, with rows of one and of two cells.
C8_Witness ==
    /\ passed[1].headers = <<PyStr("A"), PyStr("B")>>
    /\ passed[1].rows = << <<PyStr("1")>>, <<PyStr("1"), PyStr("2")>> >>
    /\ returned # <<>>
    /\ Len(widgets[returned[1][2]].columns) = 2
    /\ Len(widgets[returned[1][2]].rows[1].cells) = 1
    /\ Len(widgets[returned[1][2]].rows[2].cells) = 2

\* C9 (SpecForm): build() of a Form of n children returns a container whose
\* column holds n+1 controls: the children in input order, then one button
\* labelled "Submit" whose click handler is the form's on_submit (None when
\* none was given).
C9_FormSubmitLast ==
    \A i \in 1..Len(returned) :
        LET a == returned[i][1]
            w == widgets[returned[i][2]]
            children == passed[a].controls
            n == Len(children)
            handler == IF passed[a].on_submit = Absent THEN PyNone ELSE passed[a].on_submit
        IN  /\ w.type = "Container"
            /\ w.content.type = "Column"
            /\ Len(w.content.controls) = n + 1
            /\ \A c \in 1..n : w.content.controls[c] = children[c]
            /\ w.content.controls[n + 1]
                   = [type |-> "ElevatedButton", text |-> PyStr("Submit"), style |-> PyNone,
                      on_click |-> handler, kwargs |-> {}]

\* C9 witness: a Form of no children with a handler was built: the column
\* holds the Submit button alone.
C9_Witness ==
    /\ passed[1].controls = <<>>
    /\ passed[1].on_submit = Callable("h1")
    /\ returned # <<>>
    /\ Len(widgets[returned[1][2]].content.controls) = 1
    /\ widgets[returned[1][2]].content.controls[1].on_click = Callable("h1")

\* C10 (SpecFrame): an assignment to the value property of one adapter
\* changes the wrapped widget and the redisplays of that adapter alone: every
\* other adapter keeps its widget, its value and its redisplays.
C10_SetTouchesOneAdapter ==
    [][\A a \in 1..Len(adapters) :
        (Len(adapters') = Len(adapters) /\ written'[a] # written[a]) =>
            /\ Len(redisplays'[a]) = Len(redisplays[a]) + 1
            /\ \A b \in (1..Len(adapters)) \ {a} :
                /\ widgets'[Wrapped(adapters[b])] = widgets[Wrapped(adapters[b])]
                /\ value_get(adapters'[b], widgets') = value_get(adapters[b], widgets)
                /\ redisplays'[b] = redisplays[b]]_vars

\* C10 witness: two Checkbox adapters constructed with True; the second was
\* set to False and redisplayed once, the first still reads True and was
\* never redisplayed.
C10_Witness ==
    /\ Len(adapters) = 2
    /\ adapters[1].cls = "Checkbox" /\ adapters[2].cls = "Checkbox"
    /\ passed = <<PyBool(TRUE), PyBool(TRUE)>>
    /\ written = << <<>>, <<PyBool(FALSE)>> >>
    /\ value_get(adapters[1], widgets) = PyBool(TRUE)
    /\ value_get(adapters[2], widgets) = PyBool(FALSE)
    /\ redisplays = << <<>>, <<PyBool(FALSE)>> >>

=============================================================================
